---- MODULE Spec2Model ----
(***************************************************************************)
(* Model of astromech.py: the command codec (_command, _audio_command,     *)
(* _motor_command), the session life cycle of class Astromech              *)
(* (__aenter__, __aexit__, _execute), the high-level calls (play, stop,    *)
(* the wheel maneuvers, the head calls) run as asyncio coroutines, and     *)
(* notification dispatch.                                                  *)
(*                                                                         *)
(* A coroutine is modelled as the sequence of the operations it awaits     *)
(* (a "program" of steps); a task is suspended at the head of its          *)
(* remaining program while that operation is in flight, and every other    *)
(* task may run meanwhile, as under the asyncio event loop.                *)
(***************************************************************************)
EXTENDS Integers, Sequences, FiniteSets, TLC

(***************************************************************************)
(* Values                                                                  *)
(***************************************************************************)

\* Optional[int]: None is the empty tuple, a value v is <<v>>.
None == <<>>

Some(v) == <<v>>

\* class Direction(enum.Enum)
Direction_LEFT == 0

Direction_RIGHT == 128

Direction_FORWARD == 0

Direction_BACKWARD == 128

\* class Motor(enum.Enum)
Motor_LEFT == 0

Motor_RIGHT == 1

Motor_HEAD == 2

\* The chassis tuning read from config/droids/<type>.yml in __init__.
wheel_ramp_time == 300

wheel_speed == 96

head_ramp_time == 200

head_speed == 64

\* a | b on non-negative integers
RECURSIVE BitOr(_, _)
BitOr(a, b) ==
  IF a = 0 THEN b
  ELSE IF b = 0 THEN a
  ELSE (IF a % 2 = 1 \/ b % 2 = 1 THEN 1 ELSE 0) + 2 * BitOr(a \div 2, b \div 2)

\* What a frame builder yields: the bytes, or the exception it raises.
Ok(b) == [err |-> "", bytes |-> b]

Raise(e) == [err |-> e, bytes |-> <<>>]

\* bytearray(list): every element must be in range(0, 256)
bytearray(s) ==
  IF \A i \in 1..Len(s) : s[i] >= 0 /\ s[i] <= 255 THEN Ok(s) ELSE Raise("ValueError")

\* _int_to_bytes with the two bytes in little-endian order
int_to_bytes_little(i) ==
  IF i < 0 \/ i > 65535 THEN Raise("OverflowError") ELSE Ok(<<i % 256, i \div 256>>)

\* _int_to_bytes(i): i.to_bytes(2, 'big')
_int_to_bytes(i) ==
  IF i < 0 \/ i > 65535 THEN Raise("OverflowError") ELSE Ok(<<i \div 256, i % 256>>)

\* Astromech._command with the length prefix computed without the 4 header bytes
command_short_prefix(command_id, command_data) ==
  IF command_data.err # "" THEN command_data
  ELSE bytearray(<<31 + Len(command_data.bytes), 66, command_id,
                   64 + Len(command_data.bytes)>> \o command_data.bytes)

\* Astromech._command with every header byte reduced modulo 256
command_wrapping(command_id, command_data) ==
  IF command_data.err # "" THEN command_data
  ELSE LET n == Len(command_data.bytes)
       IN  Ok(<<(31 + 4 + n) % 256, 66, command_id % 256, (64 + n) % 256>>
                \o command_data.bytes)

\* Astromech._command: four header bytes, each appended with bytearray.append
\* (which raises ValueError outside range(0, 256)), then the data.  An
\* exception raised while the argument was built propagates.
_command(command_id, command_data) ==
  IF command_data.err # "" THEN command_data
  ELSE LET n == Len(command_data.bytes)
       IN  IF 31 + 4 + n > 255 \/ command_id < 0 \/ command_id > 255 \/ 64 + n > 255
           THEN Raise("ValueError")
           ELSE Ok(<<31 + 4 + n, 66, command_id, 64 + n>> \o command_data.bytes)

\* Astromech._audio_command
_audio_command(cmd, param) ==
  LET command_data == bytearray(<<68, 0, cmd>>)
  IN  _command(15,
        IF command_data.err # "" \/ param = None THEN command_data
        ELSE bytearray(command_data.bytes \o <<param[1]>>))

\* Astromech._motor_command with `speed or default`, `ramp_time or default`
motor_command_falsy(direction, motor, speed, ramp_time, delay_after) ==
  LET speed_value == IF speed # None /\ speed[1] # 0 THEN speed[1]
                     ELSE IF motor = Motor_HEAD THEN head_speed ELSE wheel_speed
      ramp_value == IF ramp_time # None /\ ramp_time[1] # 0 THEN ramp_time[1]
                    ELSE IF motor = Motor_HEAD THEN head_ramp_time ELSE wheel_ramp_time
      head == bytearray(<<BitOr(direction, motor), speed_value>>)
      ramp == _int_to_bytes(ramp_value)
      delay == _int_to_bytes(delay_after)
  IN  _command(5,
        IF head.err # "" THEN head
        ELSE IF ramp.err # "" THEN ramp
        ELSE IF delay.err # "" THEN delay
        ELSE Ok(head.bytes \o ramp.bytes \o delay.bytes))

\* Astromech._motor_command
_motor_command(direction, motor, speed, ramp_time, delay_after) ==
  LET speed_value == IF speed # None THEN speed[1]
                     ELSE IF motor = Motor_HEAD THEN head_speed ELSE wheel_speed
      ramp_value == IF ramp_time # None THEN ramp_time[1]
                    ELSE IF motor = Motor_HEAD THEN head_ramp_time ELSE wheel_ramp_time
      head == bytearray(<<BitOr(direction, motor), speed_value>>)
      ramp == _int_to_bytes(ramp_value)
      delay == _int_to_bytes(delay_after)
  IN  _command(5,
        IF head.err # "" THEN head
        ELSE IF ramp.err # "" THEN ramp
        ELSE IF delay.err # "" THEN delay
        ELSE Ok(head.bytes \o ramp.bytes \o delay.bytes))

\* The frame R2_Unit.center_head builds.
center_head_command(speed, stop_at_center) ==
  LET speed_value == IF speed # None THEN speed[1] ELSE head_speed
  IN  _command(15, bytearray(<<68, 1, speed_value, IF stop_at_center THEN 0 ELSE 1>>))

\* The bytes __aenter__ writes twice, unframed: bytearray([0x22, 0x20, 0x01])
HANDSHAKE == bytearray(<<34, 32, 1>>)

(***************************************************************************)
(* Coroutines as programs: the sequence of operations a coroutine awaits.  *)
(***************************************************************************)

Step(op, data, ms) == [op |-> op, data |-> data, ms |-> ms]

\* await self._client.connect()
Connect == Step("connect", Ok(<<>>), 0)

\* await self._client.start_notify(...)
StartNotify == Step("start_notify", Ok(<<>>), 0)

\* await self._client.disconnect()
Disconnect == Step("disconnect", Ok(<<>>), 0)

\* await asyncio.sleep(ms / 1000)
Sleep(ms) == Step("sleep", Ok(<<>>), ms)

\* Astromech._execute that calls write_gatt_char twice with the command
execute_twice(command) == <<Step("write", command, 0), Step("write", command, 0)>>

\* Astromech._execute(command): one write_gatt_char(..., response=True), awaited
_execute(command) == <<Step("write", command, 0)>>

\* __aenter__ with the notification subscription after the handshake
aenter_notify_last == <<Connect>> \o _execute(HANDSHAKE) \o _execute(HANDSHAKE) \o <<StartNotify>>

\* Astromech.__aenter__, after self._client = BleakClient(...)
__aenter__ == <<Connect, StartNotify>> \o _execute(HANDSHAKE) \o _execute(HANDSHAKE)

\* Astromech.__aexit__: disconnect only when the client reports is_connected
__aexit__(is_connected) == IF is_connected THEN <<Disconnect>> ELSE <<>>

\* Astromech.set_audio_group
set_audio_group(group_id) == _execute(_audio_command(31, Some(group_id)))

\* Astromech.play_sound_from_current_group
play_sound_from_current_group(sound_id) == _execute(_audio_command(24, Some(sound_id)))

\* Astromech.play with the two audio commands in the other order
play_sound_first(sound, wait) ==
  play_sound_from_current_group(sound.sound) \o set_audio_group(sound.group)
    \o (IF wait THEN <<Sleep(sound.ms)>> ELSE <<>>)

\* Astromech.play
play(sound, wait) ==
  set_audio_group(sound.group) \o play_sound_from_current_group(sound.sound)
    \o (IF wait THEN <<Sleep(sound.ms)>> ELSE <<>>)

\* Astromech.stop without the leading suspension
stop_no_sleep(delay_ms) ==
  _execute(_motor_command(Direction_FORWARD, Motor_LEFT, Some(0), None, 0))
    \o _execute(_motor_command(Direction_FORWARD, Motor_RIGHT, Some(0), None, 0))

\* Astromech.stop
stop(delay_ms) ==
  <<Sleep(delay_ms)>>
    \o _execute(_motor_command(Direction_FORWARD, Motor_LEFT, Some(0), None, 0))
    \o _execute(_motor_command(Direction_FORWARD, Motor_RIGHT, Some(0), None, 0))

\* Astromech._move_wheels
_move_wheels(left_direction, right_direction, duration_ms, left_speed, right_speed, ramp_time) ==
  _execute(_motor_command(left_direction, Motor_LEFT, left_speed, ramp_time, 0))
    \o _execute(_motor_command(right_direction, Motor_RIGHT, right_speed, ramp_time, 0))
    \o stop(duration_ms)

\* int(float(speed) / 2.0) with the half rounded up
half_rounded_up(speed) == (speed + 1) \div 2

\* int(float(speed) / 2.0): halving that truncates toward zero
Half(speed) == IF speed >= 0 THEN speed \div 2 ELSE 0 - ((0 - speed) \div 2)

\* The default of the speed parameter of the two drift maneuvers (0xa0)
DRIFT_SPEED == 160

\* R2_Unit.rotate_head
rotate_head(direction, speed, ramp_time, delay_after) ==
  _execute(_motor_command(direction, Motor_HEAD, speed, ramp_time, delay_after))

\* R2_Unit.center_head
center_head(speed, stop_at_center) == _execute(center_head_command(speed, stop_at_center))

\* R2_Unit.look_around that centers the head whatever stop_at_center is
look_around_centering(speed, stop_at_center) ==
  rotate_head(Direction_LEFT, speed, None, 0) \o <<Sleep(1500)>>
    \o rotate_head(Direction_RIGHT, speed, None, 0) \o <<Sleep(1500)>>
    \o center_head(speed, TRUE)

\* R2_Unit.look_around
look_around(speed, stop_at_center) ==
  rotate_head(Direction_LEFT, speed, None, 0) \o <<Sleep(1500)>>
    \o rotate_head(Direction_RIGHT, speed, None, 0) \o <<Sleep(1500)>>
    \o (IF stop_at_center THEN center_head(speed, TRUE) ELSE <<>>)

\* R2_Unit.move_forward
move_forward(duration_ms, speed, ramp_time) ==
  _move_wheels(Direction_FORWARD, Direction_FORWARD, duration_ms, speed, speed, ramp_time)

\* R2_Unit.move_backward
move_backward(duration_ms, speed, ramp_time) ==
  _move_wheels(Direction_BACKWARD, Direction_BACKWARD, duration_ms, speed, speed, ramp_time)

\* R2_Unit.spin_clockwise
spin_clockwise(duration_ms, speed, ramp_time) ==
  _move_wheels(Direction_FORWARD, Direction_BACKWARD, duration_ms, speed, speed, ramp_time)

\* R2_Unit.spin_counter_clockwise
spin_counter_clockwise(duration_ms, speed, ramp_time) ==
  _move_wheels(Direction_BACKWARD, Direction_FORWARD, duration_ms, speed, speed, ramp_time)

\* R2_Unit.turn_clockwise
turn_clockwise(duration_ms, speed, ramp_time) ==
  _move_wheels(Direction_FORWARD, Direction_FORWARD, duration_ms, speed, Some(0), ramp_time)

\* R2_Unit.turn_counter_clockwise
turn_counter_clockwise(duration_ms, speed, ramp_time) ==
  _move_wheels(Direction_FORWARD, Direction_FORWARD, duration_ms, Some(0), speed, ramp_time)

\* R2_Unit.drift_clockwise (speed is an int here, never None)
drift_clockwise(duration_ms, speed, ramp_time) ==
  _move_wheels(Direction_FORWARD, Direction_FORWARD, duration_ms,
               Some(speed), Some(Half(speed)), ramp_time)

\* R2_Unit.drift_counter_clockwise
drift_counter_clockwise(duration_ms, speed, ramp_time) ==
  _move_wheels(Direction_FORWARD, Direction_FORWARD, duration_ms,
               Some(Half(speed)), Some(speed), ramp_time)

(***************************************************************************)
(* Bounds and inputs                                                       *)
(***************************************************************************)

\* How many times __aenter__ may be called on the instance: in the
\* specifications without caller tasks, and in those with them.
MaxEnters == 2

MaxEntersCalls == 1

\* How many high-level calls each caller task makes.
MaxCalls == 1

\* How many listeners are registered, and how many notifications arrive.
MaxListeners == 2

MaxNotifs == 2

\* The tasks that call the high-level methods (the arguments of asyncio.gather).
Tasks == {"t1", "t2"}

\* The callbacks passed to listen_for_notifications.
Callbacks == {"A", "B"}

\* Two entries of a personality's sound table: Sound(group, sound, ms).
Sounds ==
  { [group |-> 1, sound |-> 2, ms |-> 1500], [group |-> 3, sound |-> 0, ms |-> 800] }

Maneuvers ==
  { "move_forward", "move_backward", "spin_clockwise", "spin_counter_clockwise",
    "turn_clockwise", "turn_counter_clockwise", "drift_clockwise",
    "drift_counter_clockwise" }

\* A call: the method and its arguments (the fields a method does not take
\* keep a fixed value).
Call(m, d, speed, ramp, sound, flag, dir) ==
  [m |-> m, d |-> d, speed |-> speed, ramp |-> ramp, sound |-> sound,
   flag |-> flag, dir |-> dir]

NoSound == [group |-> 0, sound |-> 0, ms |-> 0]

NoCall == Call("none", 0, None, None, NoSound, FALSE, 0)

\* Each maneuver for one second, at its default speed and ramp.
ManeuverCalls == { Call(m, 1000, None, None, NoSound, FALSE, 0) : m \in Maneuvers }

\* The calls two concurrent tasks choose from: the pair samples/r2.py
\* gathers first, and a second sound of another group.
GatherCalls ==
  { Call("play", 0, None, None, [group |-> 1, sound |-> 2, ms |-> 1500], TRUE, 0),
    Call("play", 0, None, None, [group |-> 3, sound |-> 0, ms |-> 800], FALSE, 0),
    Call("move_forward", 1000, None, None, NoSound, FALSE, 0) }

\* Wheel and head calls with and without explicit speed and ramp, an
\* explicit 0 included.
TuningCalls ==
  { Call("move_forward", 1000, None, None, NoSound, FALSE, 0),
    Call("move_forward", 1000, Some(0), Some(0), NoSound, FALSE, 0),
    Call("move_backward", 500, Some(128), Some(500), NoSound, FALSE, 0),
    Call("rotate_head", 0, None, None, NoSound, FALSE, Direction_LEFT),
    Call("rotate_head", 0, Some(0), Some(0), NoSound, FALSE, Direction_RIGHT),
    Call("rotate_head", 0, Some(128), Some(500), NoSound, FALSE, Direction_LEFT) }

\* Each maneuver for one second at its default speed, and a drift at 0x80
\* and at the odd speed 0x81.
TableCalls ==
  ManeuverCalls
    \cup { Call("drift_clockwise", 1000, Some(128), None, NoSound, FALSE, 0),
           Call("drift_counter_clockwise", 1000, Some(129), None, NoSound, FALSE, 0) }

\* The audio and head calls a single task chooses from: a sound played
\* with and without waiting, and look_around with and without centering.
HeadAudioCalls ==
  { Call("play", 0, None, None, [group |-> 1, sound |-> 2, ms |-> 1500], TRUE, 0),
    Call("play", 0, None, None, [group |-> 3, sound |-> 0, ms |-> 800], FALSE, 0) }
    \cup { Call("look_around", 0, speed, None, NoSound, flag, 0) :
              speed \in {None, Some(128)}, flag \in BOOLEAN }

\* The calls a single task chooses from.
AloneCalls == ManeuverCalls \cup {Call("stop", 0, None, None, NoSound, FALSE, 0)}

\* The program of a call: which method runs with which arguments.
Program(c) ==
  CASE c.m = "play" -> play(c.sound, c.flag)
    [] c.m = "set_audio_group" -> set_audio_group(c.sound.group)
    [] c.m = "stop" -> stop(c.d)
    [] c.m = "rotate_head" -> rotate_head(c.dir, c.speed, c.ramp, 0)
    [] c.m = "center_head" -> center_head(c.speed, c.flag)
    [] c.m = "look_around" -> look_around(c.speed, c.flag)
    [] c.m = "move_forward" -> move_forward(c.d, c.speed, c.ramp)
    [] c.m = "move_backward" -> move_backward(c.d, c.speed, c.ramp)
    [] c.m = "spin_clockwise" -> spin_clockwise(c.d, c.speed, c.ramp)
    [] c.m = "spin_counter_clockwise" -> spin_counter_clockwise(c.d, c.speed, c.ramp)
    [] c.m = "turn_clockwise" -> turn_clockwise(c.d, c.speed, c.ramp)
    [] c.m = "turn_counter_clockwise" -> turn_counter_clockwise(c.d, c.speed, c.ramp)
    [] c.m = "drift_clockwise" ->
         drift_clockwise(c.d, IF c.speed = None THEN DRIFT_SPEED ELSE c.speed[1], c.ramp)
    [] c.m = "drift_counter_clockwise" ->
         drift_counter_clockwise(c.d, IF c.speed = None THEN DRIFT_SPEED ELSE c.speed[1],
                                 c.ramp)

(***************************************************************************)
(* State                                                                   *)
(***************************************************************************)

VARIABLES
  client,      \* self._client: 0 while unset, else the id of the BleakClient
  conn,        \* per BleakClient: "none", "new", "connected" or "closed"
  subscribed,  \* the clients whose start_notify has completed
  phase,       \* the task that holds the session scope: "new", "entering",
               \* "ready" (inside the async with body), "exiting", "exited",
               \* "enterFailed" (__aenter__ raised)
  mprog,       \* the rest of __aenter__ / __aexit__; its head is in flight
  mlog,        \* history: the operations __aenter__ and __aexit__ started
               \* since the last entry, with the bytes of each write
  hsDone,      \* history: handshake writes that returned in this entry
  hs2Failed,   \* history: the second handshake write of some entry failed
  leave,       \* history: the client the scope was last left with, whether
               \* its link was live at that moment, and how __aexit__
               \* ended: "returned", "raised" (the exception disconnect()
               \* raised left it), "cancelled"; "" until then
  disconnects, \* history: per client, the calls of disconnect()
  enters,      \* the number of __aenter__ calls so far
  status,      \* per caller task: "idle", "await", "done", "failed", "cancelled"
  prog,        \* per caller task: the rest of its call; its head is in flight
  call,        \* per caller task: the call it runs or ran last
  hist,        \* history, per caller task: the writes that reached the
               \* device and the suspensions started by its current call
  ncalls,      \* per caller task: the calls it has made
  wire,        \* history: the command frames that reached the device, in
               \* order, of each task's current call (the handshake writes
               \* are in mlog)
  sentIn,      \* history: the handshake situations ("handshake_pending",
               \* "handshake_failed", "handshake_done") in which a command
               \* frame reached the device
  listeners,   \* self._notification_listeners
  dispatches,  \* history: one record per _notification_callback invocation
  cin,         \* the arguments of the last frame builder applied
  cout         \* what it returned

sessionVars ==
  <<client, conn, subscribed, phase, mprog, mlog, hsDone, hs2Failed, leave,
    disconnects, enters>>

taskVars == <<status, prog, call, hist, ncalls>>

notifyVars == <<listeners, dispatches>>

codecVars == <<cin, cout>>

vars == <<sessionVars, taskVars, wire, sentIn, notifyVars, codecVars>>

Clients == 1..(IF MaxEnters > MaxEntersCalls THEN MaxEnters ELSE MaxEntersCalls)

NoLeave == [live |-> FALSE, client |-> 0, aexit |-> ""]

\* The arguments of a frame builder (the fields it does not take keep a
\* fixed value).
Input(f, id, data, dir, motor, speed, ramp, delay, flag) ==
  [f |-> f, id |-> id, data |-> data, dir |-> dir, motor |-> motor, speed |-> speed,
   ramp |-> ramp, delay |-> delay, flag |-> flag]

NoInput == Input("none", 0, <<>>, 0, 0, None, None, 0, FALSE)

\* The state after Astromech.__init__ (self._client is annotated, not set).
Init ==
  /\ client = 0
  /\ conn = [c \in Clients |-> "none"]
  /\ subscribed = {}
  /\ phase = "new"
  /\ mprog = <<>>
  /\ mlog = <<>>
  /\ hsDone = 0
  /\ hs2Failed = FALSE
  /\ leave = NoLeave
  /\ disconnects = [c \in Clients |-> 0]
  /\ enters = 0
  /\ status = [t \in Tasks |-> "idle"]
  /\ prog = [t \in Tasks |-> <<>>]
  /\ call = [t \in Tasks |-> NoCall]
  /\ hist = [t \in Tasks |-> <<>>]
  /\ ncalls = [t \in Tasks |-> 0]
  /\ wire = <<>>
  /\ sentIn = {}
  /\ listeners = <<>>
  /\ dispatches = <<>>
  /\ cin = NoInput
  /\ cout = Ok(<<>>)

\* self._client.is_connected, given the link states cn
IsConnected(cl, cn) == cl # 0 /\ cn[cl] = "connected"

\* The record of a write that reached the device.
WireEntry(by, data, cl) == [by |-> by, data |-> data, client |-> cl]

\* The handshake situation of the session now.
Situation ==
  IF hs2Failed THEN "handshake_failed"
  ELSE IF hsDone < 2 THEN "handshake_pending"
  ELSE "handshake_done"

(***************************************************************************)
(* The task that holds the session scope: __aenter__ and __aexit__         *)
(***************************************************************************)

\* The task runs on from the steps `rest` until it is suspended in the next
\* awaited operation, finishes, or that operation raises at once
\* (start_notify and write_gatt_char raise on a client that is not
\* connected).  cl and cn are self._client and the link states by then, ph
\* is "entering" or "exiting", lg the log and lv the leave record so far.
MainRun(rest, cl, cn, ph, lg, lv) ==
  IF rest = <<>>
  THEN /\ phase' = (IF ph = "entering" THEN "ready" ELSE "exited")
       /\ mprog' = <<>>
       /\ mlog' = lg
       /\ wire' = wire
       /\ leave' = (IF ph = "entering" THEN lv
                    ELSE [lv EXCEPT !.aexit = "returned"])
       /\ disconnects' = disconnects
  ELSE LET s == Head(rest)
       IN  IF s.op \in {"start_notify", "write"}
                /\ (s.data.err # "" \/ ~IsConnected(cl, cn))
           THEN /\ phase' = (IF ph = "entering" THEN "enterFailed" ELSE "exited")
                /\ mprog' = <<>>
                /\ mlog' = lg
                /\ wire' = wire
                /\ leave' = (IF ph = "entering"
                             THEN [NoLeave EXCEPT !.live = IsConnected(cl, cn),
                                                  !.client = cl]
                             ELSE lv)
                /\ disconnects' = disconnects
           ELSE /\ phase' = ph
                /\ mprog' = rest
                /\ mlog' = Append(lg, [op |-> s.op, data |-> s.data.bytes])
                /\ wire' = wire
                /\ leave' = lv
                /\ disconnects' = (IF s.op = "disconnect"
                                   THEN [disconnects EXCEPT ![cl] = @ + 1]
                                   ELSE disconnects)

\* `async with droid:` calls __aenter__: a new BleakClient replaces
\* self._client and connect() is awaited.
AEnter(bound) ==
  /\ phase \in {"new", "exited", "enterFailed"}
  /\ enters < bound
  /\ enters' = enters + 1
  /\ client' = enters + 1
  /\ conn' = [conn EXCEPT ![enters + 1] = "new"]
  /\ hsDone' = 0
  /\ MainRun(__aenter__, enters + 1, conn', "entering", <<>>, leave)
  /\ UNCHANGED <<subscribed, hs2Failed, taskVars, sentIn, notifyVars, codecVars>>

\* The operation __aenter__ or __aexit__ awaits returns.
MainReturn ==
  /\ phase \in {"entering", "exiting"}
  /\ mprog # <<>>
  /\ LET s == Head(mprog)
         cn == CASE s.op = "connect" -> [conn EXCEPT ![client] = "connected"]
                 [] s.op = "disconnect" -> [conn EXCEPT ![client] = "closed"]
                 [] OTHER -> conn
     IN  /\ s.op \in {"start_notify", "write"} => IsConnected(client, conn)
         /\ conn' = cn
         /\ subscribed' = (IF s.op = "start_notify" THEN subscribed \cup {client}
                           ELSE subscribed)
         /\ hsDone' = (IF s.op = "write" THEN hsDone + 1 ELSE hsDone)
         /\ MainRun(Tail(mprog), client, cn, phase, mlog, leave)
  /\ UNCHANGED <<client, hs2Failed, enters, taskVars, sentIn, notifyVars, codecVars>>

\* The operation __aenter__ or __aexit__ awaits raises (how = "error"), or
\* the task is cancelled while suspended in it (how = "cancel").  Neither
\* method has an except or finally clause: the exception leaves the method,
\* and an exception that leaves __aexit__ is what the async with statement
\* raises, in place of the one that was propagating out of the body.
MainRaise(how) ==
  /\ phase \in {"entering", "exiting"}
  /\ mprog # <<>>
  /\ phase' = (IF phase = "entering" THEN "enterFailed" ELSE "exited")
  /\ mprog' = <<>>
  /\ hs2Failed' = (hs2Failed \/ (how = "error" /\ phase = "entering"
                                 /\ Head(mprog).op = "write" /\ hsDone = 1))
  /\ leave' = (IF phase = "entering"
               THEN [NoLeave EXCEPT !.live = IsConnected(client, conn), !.client = client]
               ELSE [leave EXCEPT !.aexit = IF how = "error" THEN "raised" ELSE "cancelled"])
  /\ UNCHANGED <<client, conn, subscribed, mlog, hsDone, disconnects, enters,
                 taskVars, wire, sentIn, notifyVars, codecVars>>

\* The async with body is left: normally, by an exception raised in it, or
\* by cancellation; each way calls __aexit__, which ignores its arguments
\* and returns None, so that an exception of the body propagates on.
AExit(how) ==
  /\ phase = "ready"
  /\ how \in {"normal", "exception", "cancel"}
  /\ hsDone' = hsDone
  /\ conn' = conn
  /\ MainRun(__aexit__(IsConnected(client, conn)), client, conn, "exiting", mlog,
             [live |-> IsConnected(client, conn), client |-> client, aexit |-> ""])
  /\ UNCHANGED <<client, subscribed, hs2Failed, enters, taskVars, sentIn, notifyVars,
                 codecVars>>

\* The device drops a BLE link.
DeviceDrop(c) ==
  /\ conn[c] = "connected"
  /\ conn' = [conn EXCEPT ![c] = "closed"]
  /\ UNCHANGED <<client, subscribed, phase, mprog, mlog, hsDone, hs2Failed, leave,
                 disconnects, enters, taskVars, wire, sentIn, notifyVars, codecVars>>

(***************************************************************************)
(* The caller tasks: high-level calls made on the session object           *)
(***************************************************************************)

\* Task t runs on from the steps `rest`, with history h and wire w, until it is
\* suspended in a write or a sleep, or finishes, or fails: a frame builder
\* that raised, or write_gatt_char on a client that is unset or not
\* connected.  _execute takes no lock and checks no session state.
TaskRun(t, rest, h, w) ==
  IF rest = <<>>
  THEN /\ status' = [status EXCEPT ![t] = "done"]
       /\ prog' = [prog EXCEPT ![t] = <<>>]
       /\ hist' = [hist EXCEPT ![t] = h]
       /\ wire' = w
       /\ sentIn' = sentIn
  ELSE LET s == Head(rest)
       IN  IF s.op = "write" /\ (s.data.err # "" \/ ~IsConnected(client, conn))
           THEN /\ status' = [status EXCEPT ![t] = "failed"]
                /\ prog' = [prog EXCEPT ![t] = <<>>]
                /\ hist' = [hist EXCEPT ![t] = h]
                /\ wire' = w
                /\ sentIn' = sentIn
           ELSE /\ status' = [status EXCEPT ![t] = "await"]
                /\ prog' = [prog EXCEPT ![t] = rest]
                /\ hist' = [hist EXCEPT ![t] =
                              Append(h, [op |-> s.op, data |-> s.data.bytes, ms |-> s.ms])]
                /\ wire' = (IF s.op = "write"
                            THEN Append(w, WireEntry(t, s.data.bytes, client))
                            ELSE w)
                /\ sentIn' = (IF s.op = "write" THEN sentIn \cup {Situation} ELSE sentIn)

\* Task t calls a high-level method of the session object.
StartCall(t, c) ==
  /\ status[t] # "await"
  /\ ncalls[t] < MaxCalls
  /\ ncalls' = [ncalls EXCEPT ![t] = @ + 1]
  /\ call' = [call EXCEPT ![t] = c]
  /\ TaskRun(t, Program(c), <<>>, SelectSeq(wire, LAMBDA e : e.by # t))
  /\ UNCHANGED <<sessionVars, notifyVars, codecVars>>

\* The client a task's write in flight was issued on.
WriteClient(t) ==
  LET idx == {i \in 1..Len(wire) : wire[i].by = t}
  IN  wire[CHOOSE i \in idx : \A j \in idx : j <= i].client

\* write_gatt_char returns the device's response to task t.
WriteReturn(t) ==
  /\ status[t] = "await"
  /\ Head(prog[t]).op = "write"
  /\ conn[WriteClient(t)] = "connected"
  /\ TaskRun(t, Tail(prog[t]), hist[t], wire)
  /\ UNCHANGED <<sessionVars, call, ncalls, notifyVars, codecVars>>

\* write_gatt_char raises in task t; no caller of _execute catches it.
WriteFail(t) ==
  /\ status[t] = "await"
  /\ Head(prog[t]).op = "write"
  /\ status' = [status EXCEPT ![t] = "failed"]
  /\ prog' = [prog EXCEPT ![t] = <<>>]
  /\ UNCHANGED <<sessionVars, call, hist, ncalls, wire, sentIn, notifyVars, codecVars>>

\* asyncio.sleep returns in task t.
SleepDone(t) ==
  /\ status[t] = "await"
  /\ Head(prog[t]).op = "sleep"
  /\ TaskRun(t, Tail(prog[t]), hist[t], wire)
  /\ UNCHANGED <<sessionVars, call, ncalls, notifyVars, codecVars>>

\* Task t is cancelled while suspended; no method catches CancelledError.
CancelTask(t) ==
  /\ status[t] = "await"
  /\ status' = [status EXCEPT ![t] = "cancelled"]
  /\ prog' = [prog EXCEPT ![t] = <<>>]
  /\ UNCHANGED <<sessionVars, call, hist, ncalls, wire, sentIn, notifyVars, codecVars>>

(***************************************************************************)
(* Notifications                                                           *)
(***************************************************************************)

\* The for loop of _notification_callback from index i on; `raising` are the
\* positions whose callback raises on this buffer.  The exception leaves
\* the loop.
RECURSIVE callback_loop(_, _, _)
callback_loop(ls, i, raising) ==
  IF i > Len(ls) THEN [calls |-> <<>>, raised |-> FALSE]
  ELSE IF i \in raising THEN [calls |-> <<ls[i]>>, raised |-> TRUE]
  ELSE LET r == callback_loop(ls, i + 1, raising)
       IN  [calls |-> <<ls[i]>> \o r.calls, raised |-> r.raised]

\* _notification_callback iterating from the last listener to the first
RECURSIVE callback_reversed(_, _)
callback_reversed(ls, raising) ==
  IF ls = <<>> THEN [calls |-> <<>>, raised |-> FALSE]
  ELSE IF Len(ls) \in raising THEN [calls |-> <<ls[Len(ls)]>>, raised |-> TRUE]
  ELSE LET r == callback_reversed(SubSeq(ls, 1, Len(ls) - 1), raising)
       IN  [calls |-> <<ls[Len(ls)]>> \o r.calls, raised |-> r.raised]

\* _notification_callback that catches what a callback raises and goes on
callback_isolating(ls, raising) == [calls |-> ls, raised |-> FALSE]

\* Astromech._notification_callback: the callbacks it calls, in order
_notification_callback(ls, raising) == callback_loop(ls, 1, raising)

\* Astromech.listen_for_notifications
listen_for_notifications(cb) ==
  /\ Len(listeners) < MaxListeners
  /\ listeners' = Append(listeners, cb)
  /\ UNCHANGED <<sessionVars, taskVars, wire, sentIn, dispatches, codecVars>>

\* A notification arrives on a subscribed, connected client: bleak calls
\* _notification_callback with the buffer (numbered in arrival order).
\* The record keeps the first position whose callback raises on this
\* buffer (0 when none does).
Notification(raising) ==
  /\ Len(dispatches) < MaxNotifs
  /\ \E c \in subscribed : conn[c] = "connected"
  /\ LET r == _notification_callback(listeners, raising)
         first == IF raising = {} THEN 0
                  ELSE CHOOSE i \in raising : \A j \in raising : i <= j
     IN  dispatches' = Append(dispatches,
                              [data |-> Len(dispatches) + 1, registered |-> listeners,
                               calls |-> r.calls, raised |-> r.raised, first |-> first])
  /\ UNCHANGED <<sessionVars, taskVars, wire, sentIn, listeners, codecVars>>

(***************************************************************************)
(* The frame builders applied to bounded inputs                            *)
(***************************************************************************)

\* The longest payload enumerated byte by byte.
MaxPayload == 3

PayloadBytes == {0, 68, 255}

CommandIds == {0, 5, 15, 255}

Zeros(n) == [i \in 1..n |-> 0]

RECURSIVE SeqsUpTo(_, _)
SeqsUpTo(S, n) ==
  IF n = 0 THEN {<<>>}
  ELSE LET shorter == SeqsUpTo(S, n - 1)
       IN  shorter \cup {Append(q, x) : q \in {r \in shorter : Len(r) = n - 1}, x \in S}

\* Short payloads of every content, the longest payload whose length byte
\* 0x40 + len still fits a byte with the next longer one, and the shortest
\* payload whose prefix byte 0x1F + 4 + len does not fit.
Payloads == SeqsUpTo(PayloadBytes, MaxPayload) \cup {Zeros(191), Zeros(192), Zeros(221)}

ApplyCommand(id, data) ==
  /\ cin' = Input("_command", id, data, 0, 0, None, None, 0, FALSE)
  /\ cout' = _command(id, bytearray(data))
  /\ UNCHANGED <<sessionVars, taskVars, wire, sentIn, notifyVars>>

ApplyAudio(cmd, param) ==
  /\ cin' = Input("_audio_command", cmd, <<>>, 0, 0, param, None, 0, FALSE)
  /\ cout' = _audio_command(cmd, param)
  /\ UNCHANGED <<sessionVars, taskVars, wire, sentIn, notifyVars>>

ApplyMotor(dir, motor, speed, ramp, delay) ==
  /\ cin' = Input("_motor_command", 0, <<>>, dir, motor, speed, ramp, delay, FALSE)
  /\ cout' = _motor_command(dir, motor, speed, ramp, delay)
  /\ UNCHANGED <<sessionVars, taskVars, wire, sentIn, notifyVars>>

ApplyCenter(speed, flag) ==
  /\ cin' = Input("center_head", 0, <<>>, 0, 0, speed, None, 0, flag)
  /\ cout' = center_head_command(speed, flag)
  /\ UNCHANGED <<sessionVars, taskVars, wire, sentIn, notifyVars>>

NextCodec ==
  \/ \E id \in CommandIds, data \in Payloads : ApplyCommand(id, data)
  \/ \E cmd \in {24, 31}, param \in {None, Some(0), Some(7)} : ApplyAudio(cmd, param)
  \/ \E dir \in {Direction_FORWARD, Direction_BACKWARD},
        motor \in {Motor_LEFT, Motor_RIGHT, Motor_HEAD},
        speed \in {None, Some(0), Some(128), Some(255)},
        ramp \in {None, Some(0), Some(500)},
        delay \in {0, 1000} : ApplyMotor(dir, motor, speed, ramp, delay)
  \/ \E speed \in {None, Some(128)}, flag \in BOOLEAN : ApplyCenter(speed, flag)

\* The frame builders alone.
SpecCodec == Init /\ [][NextCodec]_vars

(***************************************************************************)
(* Specifications                                                          *)
(***************************************************************************)

SessionNext(bound) ==
  \/ AEnter(bound)
  \/ MainReturn
  \/ \E how \in {"error", "cancel"} : MainRaise(how)
  \/ \E how \in {"normal", "exception", "cancel"} : AExit(how)
  \/ \E c \in Clients : DeviceDrop(c)

TaskNext(t) ==
  \/ WriteReturn(t)
  \/ WriteFail(t)
  \/ SleepDone(t)
  \/ CancelTask(t)

Next ==
  \/ SessionNext(MaxEntersCalls)
  \/ \E t \in Tasks : \E c \in GatherCalls : StartCall(t, c)
  \/ \E t \in Tasks : TaskNext(t)

\* A session used by two concurrent caller tasks.
Spec == Init /\ [][Next]_vars

NextAlone ==
  \/ SessionNext(MaxEntersCalls)
  \/ \E c \in AloneCalls : StartCall("t1", c)
  \/ TaskNext("t1")

\* A session used by one caller task.
SpecAlone == Init /\ [][NextAlone]_vars

NextTuning ==
  \/ SessionNext(MaxEntersCalls)
  \/ \E c \in TuningCalls : StartCall("t1", c)
  \/ TaskNext("t1")

\* A session used by one caller task that passes or omits speed and ramp.
SpecTuning == Init /\ [][NextTuning]_vars

NextTable ==
  \/ SessionNext(MaxEntersCalls)
  \/ \E c \in TableCalls : StartCall("t1", c)
  \/ TaskNext("t1")

\* A session used by one caller task that runs the wheel maneuvers at
\* default and explicit speeds.
SpecTable == Init /\ [][NextTable]_vars

NextHeadAudio ==
  \/ SessionNext(MaxEntersCalls)
  \/ \E c \in HeadAudioCalls : StartCall("t1", c)
  \/ TaskNext("t1")

\* A session used by one caller task that plays sounds and moves the head.
SpecHeadAudio == Init /\ [][NextHeadAudio]_vars

\* The session life cycle alone, entered more than once.
SpecSession == Init /\ [][SessionNext(MaxEnters)]_vars

NextNotify ==
  \/ SessionNext(MaxEntersCalls)
  \/ \E cb \in Callbacks : listen_for_notifications(cb)
  \/ \E raising \in SUBSET (1..Len(listeners)) : Notification(raising)

\* A session and its notification listeners.
SpecNotify == Init /\ [][NextNotify]_vars

(***************************************************************************)
(* Derived state                                                           *)
(***************************************************************************)

\* The caller tasks suspended in write_gatt_char.
InFlight == {t \in Tasks : status[t] = "await" /\ Head(prog[t]).op = "write"}

\* The state of the session state machine.
SessionState ==
  CASE phase = "ready" -> "Ready"
    [] phase = "entering" /\ Head(mprog).op = "connect" -> "Connecting"
    [] phase = "entering" -> "Handshaking"
    [] OTHER -> "Disconnected"

IsPrefix(p, q) == Len(p) <= Len(q) /\ \A i \in 1..Len(p) : p[i] = q[i]

Ended(t) == status[t] \in {"done", "failed", "cancelled"}

(***************************************************************************)
(* Claims                                                                  *)
(***************************************************************************)

\* C1: on a Ready session at most one write_gatt_char of the concurrently
\* running high-level calls is in flight at any time.
C1_OneWriteInFlight == phase = "ready" => Cardinality(InFlight) <= 1

\* C2: every command frame that reaches the device does so after both
\* handshake writes of __aenter__ have returned.
C2_NoCommandBeforeHandshake == "handshake_pending" \notin sentIn

\* C3: a session whose second handshake write failed is never Ready, and no
\* command frame reaches the device on it after that failure.
C3_FailedHandshakeSendsNothing ==
  /\ hs2Failed => phase # "ready"
  /\ "handshake_failed" \notin sentIn

\* C4: when the session scope has been left (from the body, or by a failure
\* or cancellation inside __aenter__), disconnect was called exactly once if
\* the link was live at that moment, and not at all if it was not.
C4_DisconnectOnEveryExit ==
  phase \in {"exited", "enterFailed"} /\ leave.client # 0 =>
    disconnects[leave.client] = (IF leave.live THEN 1 ELSE 0)

\* C5: once __aexit__ has brought the instance to Disconnected, no step
\* takes it out of that state.
C5_NoReturnFromDisconnected ==
  [][phase = "exited" => SessionState' = "Disconnected"]_vars

\* C6: __aenter__ starts connect, start_notify, a write of 22 20 01 and a
\* second write of 22 20 01 in that order, each after the one before has
\* returned, and the session is Ready only when the second write returned.
C6_Expected ==
  << [op |-> "connect", data |-> <<>>], [op |-> "start_notify", data |-> <<>>],
     [op |-> "write", data |-> <<34, 32, 1>>], [op |-> "write", data |-> <<34, 32, 1>>] >>

C6_EnterOrder ==
  phase \in {"entering", "ready"} =>
    /\ mlog # <<>>
    /\ IsPrefix(mlog, C6_Expected)
    /\ Len(mlog) >= 3 => client \in subscribed
    /\ hsDone = (IF phase = "ready" THEN 2 ELSE IF Len(mlog) >= 3 THEN Len(mlog) - 3 ELSE 0)
    /\ phase = "ready" => mlog = C6_Expected

C6_Witness == SessionState = "Ready" /\ mlog = C6_Expected /\ hsDone = 2

\* C7: the operations of a wheel maneuver run alone are, in order, the
\* left-motor frame, the right-motor frame, a suspension of duration_ms, the
\* stop frame of the left motor and the stop frame of the right motor (both
\* Forward, speed 0); a finished maneuver has done all five, and the command
\* frames on the wire are exactly its writes.
C7_Matches(i, e, c) ==
  CASE i = 1 -> e.op = "write" /\ e.data[3] = 5 /\ e.data[5] % 128 = 0
    [] i = 2 -> e.op = "write" /\ e.data[3] = 5 /\ e.data[5] % 128 = 1
    [] i = 3 -> e.op = "sleep" /\ e.ms = c.d
    [] i = 4 -> e.op = "write" /\ e.data[3] = 5 /\ e.data[5] = 0 /\ e.data[6] = 0
    [] i = 5 -> e.op = "write" /\ e.data[3] = 5 /\ e.data[5] = 1 /\ e.data[6] = 0
    [] OTHER -> FALSE

C7_Writes(h) == SelectSeq(h, LAMBDA e : e.op = "write")

C7_ManeuverTrace ==
  \A t \in Tasks :
    call[t].m \in Maneuvers =>
      /\ \A i \in 1..Len(hist[t]) : C7_Matches(i, hist[t][i], call[t])
      /\ status[t] = "done" => Len(hist[t]) = 5
      /\ LET ws == C7_Writes(hist[t])
             mine == SelectSeq(wire, LAMBDA e : e.by = t)
         IN  /\ Len(mine) = Len(ws)
             /\ \A i \in 1..Len(ws) : mine[i].data = ws[i].data
             /\ (\A u \in Tasks \ {t} : ncalls[u] = 0) => wire = mine

C7_Witness ==
  /\ status["t1"] = "done"
  /\ call["t1"].m = "spin_counter_clockwise"
  /\ Len(hist["t1"]) = 5
  /\ hist["t1"][1].data[5] = 128
  /\ hist["t1"][2].data[6] = wheel_speed

\* C8: a wheel maneuver called on a Ready session that got the response to
\* its left-motor frame and wrote its right-motor frame has, when it ends
\* (returned, raised or cancelled), written both stop frames.
C8_StopAfterManeuver ==
  \A t \in Tasks :
    /\ call[t].m \in Maneuvers
    /\ Ended(t)
    /\ Len(hist[t]) >= 2
    /\ sentIn \subseteq {"handshake_done"}
    => Len(hist[t]) = 5

\* C9 as stated: every notification is delivered to every listener
\* registered when it is dispatched.
C9_EveryListenerReceives ==
  \A i \in 1..Len(dispatches) : dispatches[i].calls = dispatches[i].registered

\* C9: every notification is delivered, within its dispatch and in arrival
\* order, to the registered listeners in registration order, once each, up
\* to and including the first listener that raises; to all of them when
\* none raises.
C9_DeliveryInOrder ==
  \A i \in 1..Len(dispatches) :
    LET d == dispatches[i]
    IN  /\ d.data = i
        /\ IsPrefix(d.calls, d.registered)
        /\ ~d.raised => d.calls = d.registered
        /\ d.raised => d.calls # <<>>

C9_Witness ==
  /\ Len(dispatches) = 2
  /\ dispatches[1].registered = <<"A">>
  /\ dispatches[2].registered = <<"A", "B">>
  /\ dispatches[2].calls = <<"A", "B">>
  /\ dispatches[1].raised

\* C10: for a payload whose length byte fits, _command returns the four
\* header bytes 0x1F + 4 + len, 0x42, the command id, 0x40 + len followed by
\* the payload; motor frames carry command id 0x05, audio and head-center
\* frames 0x0F.
C10_FrameLayout ==
  /\ cin.f = "_command" /\ 64 + Len(cin.data) <= 255 =>
       /\ cout.err = ""
       /\ Len(cout.bytes) = 4 + Len(cin.data)
       /\ cout.bytes[1] = 31 + 4 + Len(cin.data)
       /\ cout.bytes[2] = 66
       /\ cout.bytes[3] = cin.id
       /\ cout.bytes[4] = 64 + Len(cin.data)
       /\ SubSeq(cout.bytes, 5, Len(cout.bytes)) = cin.data
  /\ cin.f = "_motor_command" => cout.err = "" /\ cout.bytes[3] = 5
  /\ cin.f \in {"_audio_command", "center_head"} => cout.err = "" /\ cout.bytes[3] = 15

C10_Witness ==
  /\ cin.f = "_command"
  /\ cin.data = <<68, 0, 255>>
  /\ cin.id = 15
  /\ cout.bytes = <<38, 66, 15, 67, 68, 0, 255>>

\* The arguments _motor_command(Direction.FORWARD, Motor.LEFT, 0x80, 500, 0)
C11_Input ==
  Input("_motor_command", 0, <<>>, Direction_FORWARD, Motor_LEFT, Some(128), Some(500), 0,
        FALSE)

\* C11 as stated: the frame built for the motor command (Forward, Left
\* motor, speed 0x80, ramp 500 ms, delay-after 0) is
\* 1F 42 05 41 00 80 01 F4 00 00.
C11_LiteralFrame == cin = C11_Input => cout.bytes = <<31, 66, 5, 65, 0, 128, 1, 244, 0, 0>>

\* C11: the frame built for the motor command (Forward, Left motor, speed
\* 0x80, ramp 500 ms, delay-after 0) is 29 42 05 46 00 80 01 F4 00 00: the
\* prefix byte is 0x1F + 4 + 6 and the length byte 0x40 + 6.
C11_FormulaFrame ==
  cin = C11_Input =>
    cout.err = "" /\ cout.bytes = <<41, 66, 5, 70, 0, 128, 1, 244, 0, 0>>

C11_Witness == cin = C11_Input /\ cout.bytes[1] = 41 /\ cout.bytes[8] = 244

\* C12: _command raises, and returns no frame, for a payload whose length
\* makes 0x40 + len or 0x1F + 4 + len exceed 255; every frame a builder
\* returns has bytes in 0..255 with prefix and length bytes equal to
\* 0x1F + 4 + len and 0x40 + len, unwrapped.
C12_OverflowRaises ==
  /\ cin.f = "_command" /\ (64 + Len(cin.data) > 255 \/ 31 + 4 + Len(cin.data) > 255) =>
       cout.err # "" /\ cout.bytes = <<>>
  /\ cin.f # "none" /\ cout.err = "" =>
       /\ \A i \in 1..Len(cout.bytes) : cout.bytes[i] \in 0..255
       /\ cout.bytes[1] = 31 + Len(cout.bytes)
       /\ cout.bytes[4] = 64 + Len(cout.bytes) - 4

C12_Witness ==
  /\ cin.f = "_command"
  /\ Len(cin.data) = 192
  /\ cout.err = "ValueError"

\* C13: in a motor frame the speed byte and the big-endian ramp field are
\* the caller's value when one is passed (0 included), else the chassis
\* default of the motor (head or wheel); the stop frames carry speed 0 and
\* the wheel ramp; move_forward(1000) writes two frames with speed 0x60 and
\* ramp 01 2C, suspends 1000 ms, and writes two frames with speed 0.
C13_Speed(c, motor) ==
  IF c.speed # None THEN c.speed[1]
  ELSE IF motor = Motor_HEAD THEN head_speed ELSE wheel_speed

C13_Ramp(c, motor) ==
  IF c.ramp # None THEN c.ramp[1]
  ELSE IF motor = Motor_HEAD THEN head_ramp_time ELSE wheel_ramp_time

C13_Entry(i, e, c) ==
  IF e.op = "sleep" THEN i = 3 /\ e.ms = c.d
  ELSE LET motor == e.data[5] % 128
       IN  IF i <= 2
           THEN /\ e.data[6] = C13_Speed(c, motor)
                /\ e.data[7] = C13_Ramp(c, motor) \div 256
                /\ e.data[8] = C13_Ramp(c, motor) % 256
                /\ motor = (IF c.m = "rotate_head" THEN Motor_HEAD ELSE i - 1)
           ELSE /\ i \in {4, 5}
                /\ e.data[6] = 0
                /\ e.data[7] = wheel_ramp_time \div 256
                /\ e.data[8] = wheel_ramp_time % 256
                /\ motor = i - 4

C13_DefaultSubstitution ==
  \A t \in Tasks :
    call[t].m \in {"move_forward", "move_backward", "rotate_head"} =>
      /\ \A i \in 1..Len(hist[t]) : C13_Entry(i, hist[t][i], call[t])
      /\ status[t] = "done" =>
            Len(hist[t]) = (IF call[t].m = "rotate_head" THEN 1 ELSE 5)
      /\ call[t] = Call("move_forward", 1000, None, None, NoSound, FALSE, 0)
            /\ status[t] = "done" =>
            /\ \A i \in {1, 2} : SubSeq(hist[t][i].data, 6, 8) = <<96, 1, 44>>
            /\ hist[t][3].ms = 1000
            /\ \A i \in {4, 5} : hist[t][i].data[6] = 0

C13_Witness ==
  /\ call["t1"] = Call("move_forward", 1000, None, None, NoSound, FALSE, 0)
  /\ status["t1"] = "done"
  /\ hist["t1"][2].data[6] = 96
  /\ hist["t1"][2].data[8] = 44
  /\ hist["t1"][5].data[6] = 0

\* C14: the first two frames of a wheel maneuver carry the directions and
\* speeds of the maneuver table, (left direction, right direction, left
\* speed, right speed): forward (F,F,s,s), backward (B,B,s,s), spin
\* clockwise (F,B,s,s), spin counter-clockwise (B,F,s,s), turn clockwise
\* (F,F,s,0), turn counter-clockwise (F,F,0,s), drift clockwise (F,F,s,s/2),
\* drift counter-clockwise (F,F,s/2,s), with s/2 truncated and s the
\* caller's speed, else 0xA0 for a drift and the wheel default otherwise.
C14_Row(ld, rd, ls, rs) == [ld |-> ld, rd |-> rd, ls |-> ls, rs |-> rs]

C14_Table(m, s) ==
  CASE m = "move_forward" -> C14_Row(0, 0, s, s)
    [] m = "move_backward" -> C14_Row(128, 128, s, s)
    [] m = "spin_clockwise" -> C14_Row(0, 128, s, s)
    [] m = "spin_counter_clockwise" -> C14_Row(128, 0, s, s)
    [] m = "turn_clockwise" -> C14_Row(0, 0, s, 0)
    [] m = "turn_counter_clockwise" -> C14_Row(0, 0, 0, s)
    [] m = "drift_clockwise" -> C14_Row(0, 0, s, s \div 2)
    [] m = "drift_counter_clockwise" -> C14_Row(0, 0, s \div 2, s)

C14_S(c) ==
  IF c.speed # None THEN c.speed[1]
  ELSE IF c.m \in {"drift_clockwise", "drift_counter_clockwise"} THEN 160 ELSE 96

C14_ManeuverTable ==
  \A t \in Tasks :
    call[t].m \in Maneuvers =>
      LET row == C14_Table(call[t].m, C14_S(call[t]))
          h == hist[t]
      IN  /\ Len(h) >= 1 => h[1].data[5] = row.ld /\ h[1].data[6] = row.ls
          /\ Len(h) >= 2 => h[2].data[5] = row.rd + 1 /\ h[2].data[6] = row.rs
          /\ status[t] = "done" => Len(h) = 5

C14_Witness ==
  /\ call["t1"].m = "drift_counter_clockwise"
  /\ call["t1"].speed = Some(129)
  /\ status["t1"] = "done"
  /\ hist["t1"][1].data[6] = 64
  /\ hist["t1"][2].data[6] = 129

\* The operation task t is suspended in is the last one of its history.
LastInFlight(t) ==
  status[t] = "await" =>
    /\ hist[t] # <<>>
    /\ Head(prog[t]).op = hist[t][Len(hist[t])].op

\* Task t goes on to its next operation in this step: it was suspended, and
\* a write it was suspended in got its response on a live link.
StepsOnAfterResponse(t) ==
  call'[t] = call[t] /\ ncalls'[t] = ncalls[t] /\ Len(hist'[t]) = Len(hist[t]) + 1 =>
    /\ status[t] = "await"
    /\ Head(prog[t]).op = "write" => conn[WriteClient(t)] = "connected"

\* C15: play(sound, wait) writes the select-group frame (payload 44 00 1F
\* sound.group), then, once that write got its response, the play frame
\* (payload 44 00 18 sound.sound); with wait it then suspends sound.ms
\* milliseconds and returns after that, without wait it returns after the
\* response to the second write and suspends nowhere.
C15_Entry(i, e, c) ==
  CASE i = 1 -> e.op = "write" /\ e.data = <<39, 66, 15, 68, 68, 0, 31, c.sound.group>>
    [] i = 2 -> e.op = "write" /\ e.data = <<39, 66, 15, 68, 68, 0, 24, c.sound.sound>>
    [] i = 3 -> c.flag /\ e.op = "sleep" /\ e.ms = c.sound.ms
    [] OTHER -> FALSE

C15_PlayState ==
  \A t \in Tasks :
    call[t].m = "play" =>
      /\ \A i \in 1..Len(hist[t]) : C15_Entry(i, hist[t][i], call[t])
      /\ LastInFlight(t)
      /\ status[t] = "done" => Len(hist[t]) = (IF call[t].flag THEN 3 ELSE 2)

C15_PlaySequence ==
  /\ []C15_PlayState
  /\ [][\A t \in Tasks : call[t].m = "play" => StepsOnAfterResponse(t)]_vars

C15_Witness ==
  /\ call["t1"].m = "play"
  /\ call["t1"].flag
  /\ status["t1"] = "done"
  /\ Len(hist["t1"]) = 3
  /\ hist["t1"][3].ms = 1500

\* C19: look_around writes one head motor frame with direction Left,
\* suspends 1.5 s, writes one head motor frame with direction Right,
\* suspends 1.5 s, and then writes the head-center frame (payload 44 01
\* speed 00) if and only if stop_at_center is true; no frame addresses a
\* wheel motor and none is a stop frame.
C19_Speed(c) == IF c.speed # None THEN c.speed[1] ELSE head_speed

C19_HeadFrame(c, dir) == <<41, 66, 5, 70, dir + 2, C19_Speed(c), 0, 200, 0, 0>>

C19_Entry(i, e, c) ==
  CASE i = 1 -> e.op = "write" /\ e.data = C19_HeadFrame(c, 0)
    [] i = 2 -> e.op = "sleep" /\ e.ms = 1500
    [] i = 3 -> e.op = "write" /\ e.data = C19_HeadFrame(c, 128)
    [] i = 4 -> e.op = "sleep" /\ e.ms = 1500
    [] i = 5 -> c.flag /\ e.op = "write" /\ e.data = <<39, 66, 15, 68, 68, 1, C19_Speed(c), 0>>
    [] OTHER -> FALSE

C19_LookAround ==
  \A t \in Tasks :
    call[t].m = "look_around" =>
      /\ \A i \in 1..Len(hist[t]) : C19_Entry(i, hist[t][i], call[t])
      /\ LastInFlight(t)
      /\ status[t] = "done" => Len(hist[t]) = (IF call[t].flag THEN 5 ELSE 4)
      /\ LET mine == SelectSeq(wire, LAMBDA e : e.by = t)
             ws == SelectSeq(hist[t], LAMBDA e : e.op = "write")
         IN  /\ Len(mine) = Len(ws)
             /\ \A i \in 1..Len(ws) :
                   /\ mine[i].data = ws[i].data
                   /\ ws[i].data[3] = 5 => ws[i].data[5] % 128 = Motor_HEAD

C19_Witness ==
  /\ call["t1"].m = "look_around"
  /\ call["t1"].flag
  /\ call["t1"].speed = None
  /\ status["t1"] = "done"
  /\ hist["t1"][3].data[5] = 130
  /\ hist["t1"][5].data = <<39, 66, 15, 68, 68, 1, 64, 0>>

\* look_around without centering has returned after its second suspension.
C19_WitnessNoCenter ==
  /\ call["t1"].m = "look_around"
  /\ ~call["t1"].flag
  /\ status["t1"] = "done"
  /\ Len(hist["t1"]) = 4

\* C17: however the body was left (normally, by an exception or by
\* cancellation), an exception that disconnect() raises does not leave
\* __aexit__: the async with statement raises nothing new and the
\* exception of the body, if any, is the one that propagates.
C17_DisconnectFailureNotEscalated == phase = "exited" => leave.aexit # "raised"

\* C18: when a listener raises on a buffer, the exception leaves the
\* dispatch call and the listeners registered after it are not called
\* with that buffer; a dispatch changes neither the listener list nor the
\* session, and the next buffer goes to the listeners from the first one
\* again.
C18_Dispatches ==
  \A i \in 1..Len(dispatches) :
    LET d == dispatches[i]
    IN  /\ d.first # 0 => d.raised /\ d.calls = SubSeq(d.registered, 1, d.first)
        /\ d.first = 0 => ~d.raised /\ d.calls = d.registered
        /\ d.registered # <<>> => d.calls # <<>> /\ d.calls[1] = d.registered[1]
        /\ i > 1 => IsPrefix(dispatches[i - 1].registered, d.registered)

C18_ListenerFailurePropagates ==
  /\ []C18_Dispatches
  /\ [][dispatches' # dispatches =>
          /\ listeners' = listeners
          /\ sessionVars' = sessionVars
          /\ dispatches'[Len(dispatches')].registered = listeners]_vars

C18_Witness ==
  /\ Len(dispatches) = 2
  /\ dispatches[1].registered = <<"A", "B">>
  /\ dispatches[1].first = 1
  /\ dispatches[1].raised
  /\ dispatches[1].calls = <<"A">>
  /\ listeners = <<"A", "B">>
  /\ dispatches[2].calls = <<"A", "B">>

\* The frames a call of play or move_forward gives to _execute, in program
\* order.
C16_Frames(c) ==
  IF c.m = "play"
  THEN << _audio_command(31, Some(c.sound.group)).bytes,
          _audio_command(24, Some(c.sound.sound)).bytes >>
  ELSE << _motor_command(Direction_FORWARD, Motor_LEFT, c.speed, c.ramp, 0).bytes,
          _motor_command(Direction_FORWARD, Motor_RIGHT, c.speed, c.ramp, 0).bytes,
          _motor_command(Direction_FORWARD, Motor_LEFT, Some(0), None, 0).bytes,
          _motor_command(Direction_FORWARD, Motor_RIGHT, Some(0), None, 0).bytes >>

C16_Mine(t) == SelectSeq(wire, LAMBDA e : e.by = t)

C16_WireState ==
  \A t \in Tasks :
    call[t].m \in {"play", "move_forward"} =>
      LET mine == C16_Mine(t)
          expected == C16_Frames(call[t])
      IN  /\ Len(mine) <= Len(expected)
          /\ \A i \in 1..Len(mine) : mine[i].data = expected[i]
          /\ Len(mine) = Len(SelectSeq(hist[t], LAMBDA e : e.op = "write"))
          /\ status[t] = "done" => Len(mine) = Len(expected)

\* A step of task t (it starts a call, or goes on in its call) adds at most
\* one frame, at the end of the wire, and that frame is the one t has just
\* given to _execute; starting a call forgets the frames of t's call before.
C16_WireStep ==
  \A t \in Tasks :
    LET started == ncalls'[t] # ncalls[t]
        before == IF started THEN SelectSeq(wire, LAMBDA e : e.by # t) ELSE wire
        h == hist'[t]
        wrote == /\ Len(h) > (IF started THEN 0 ELSE Len(hist[t]))
                 /\ h[Len(h)].op = "write"
    IN  started \/ h # hist[t] =>
          wire' = (IF wrote THEN Append(before, WireEntry(t, h[Len(h)].data, client))
                   ELSE before)

\* C16: the writes of concurrent calls reach the connection in the order
\* in which they were given to _execute: the frames of each call are on the
\* wire in the call's program order, none lost or duplicated, each appended
\* after every frame given to _execute before it, whatever call that was.
C16_WritesInSubmissionOrder ==
  /\ []C16_WireState
  /\ [][C16_WireStep]_vars
  /\ [][ncalls' = ncalls /\ hist' = hist => wire' = wire]_vars

\* A frame of t2 is on the wire between two frames of one maneuver of t1.
C16_Witness ==
  /\ call["t1"].m = "move_forward"
  /\ status["t1"] = "done"
  /\ Len(C16_Mine("t1")) = 4
  /\ \E i, j, k \in 1..Len(wire) :
        /\ i < j /\ j < k
        /\ wire[i].by = "t1" /\ wire[j].by = "t2" /\ wire[k].by = "t1"
        /\ wire[i].data[6] = wheel_speed /\ wire[k].data[6] = wheel_speed

C20_IsAudio(e, cmd) == e.data[3] = 15 /\ e.data[5] = 68 /\ e.data[6] = 0 /\ e.data[7] = cmd

\* C20: on a session whose handshake completed before any command, when a
\* call play(sound) writes its play frame, the last select-group frame
\* written before it carries sound.group.
C20_PlaysFromOwnGroup ==
  sentIn \subseteq {"handshake_done"} =>
    \A i \in 1..Len(wire) :
      C20_IsAudio(wire[i], 24) /\ call[wire[i].by].m = "play" =>
        LET sel == {j \in 1..(i - 1) : C20_IsAudio(wire[j], 31)}
        IN  /\ sel # {}
            /\ wire[CHOOSE j \in sel : \A k \in sel : k <= j].data[8]
                  = call[wire[i].by].sound.group

====
